---- MODULE Spec2Model ----
(***************************************************************************)
(* Session Guard of the Logistics Control Tower dashboard: the AuthProvider *)
(* session store, the axios request/response interceptors, the            *)
(* ProtectedRoute gate and the Login view, as one state machine.           *)
(* One browser page load is one process lifetime; localStorage outlives it.*)
(***************************************************************************)
EXTENDS Integers, Sequences, FiniteSets, TLC

VARIABLES
    localStorage,   \* the two durable slots auth_token / auth_user
    token,          \* AuthProvider state: token
    user,           \* AuthProvider state: user
    isLoading,      \* AuthProvider state: isLoading
    pathname,       \* current router location
    loading,        \* Login view state: loading
    error,          \* Login view state: error
    inflight,       \* requests dispatched through the api client, not yet answered
    hrefAssigned,   \* window.location.href = '/login' was executed, page load pending
    ev,             \* the handler that ran last, with its inputs
    before,         \* session as it was when the page was last reloaded
    attempt,        \* what the last login attempt of the user failed with
    reads,          \* the storage slots the handler that ran last called getItem on
    hubs,           \* OperationsMap state: hubs (the markers drawn)
    chains,         \* OperationsMap: one promise chain per run of its mount effect
    messages,       \* ChatBot state: messages
    inputValue,     \* ChatBot state: inputValue
    sends           \* ChatBot: handleSend calls suspended at their await

\* the session guard's part of the state, and the two widgets' part
session == <<localStorage, token, user, isLoading, pathname, loading, error,
             inflight, hrefAssigned, ev, before, attempt, reads>>
session_but_ev == <<localStorage, token, user, isLoading, pathname, loading, error,
                    inflight, hrefAssigned, before, attempt, reads>>
widgets == <<hubs, chains, messages, inputValue, sends>>

vars == <<localStorage, token, user, isLoading, pathname, loading, error,
          inflight, hrefAssigned, ev, before, attempt, reads,
          hubs, chains, messages, inputValue, sends>>

(***************************************************************************)
(* Bounds                                                                  *)
(***************************************************************************)
MaxInFlight == 2

(***************************************************************************)
(* JavaScript values.  A string is the sequence of its lexical pieces, so  *)
(* that a serialized object can be taken apart again.                      *)
(***************************************************************************)
null == [js |-> "null"]
undefined == [js |-> "undefined"]
Str(pieces) == [chars |-> pieces]
EmptyString == Str(<<>>)

\* JS truthiness of the values the session handles (null, undefined, "" are falsy)
Truthy(v) == v # null /\ v # undefined /\ v # EmptyString

tok1 == Str(<<"tok1">>)
tok2 == Str(<<"tok2">>)
AccessTokens == {tok1, tok2}

\* User objects as the backend returns them; phone is optional
alice == [id |-> 1, username |-> "alice", role_code |-> "SUPER_ADMIN", phone |-> "555"]
bob == [id |-> 2, username |-> "bob", role_code |-> "ANALYST"]
carol == [id |-> 3, username |-> "carol", role_code |-> "OPS_MANAGER"]
dave == [id |-> 4, username |-> "dave", role_code |-> "VENDOR_USER", phone |-> "555"]
\* a role code outside the closed set of AppSidebar's Role type
eve == [id |-> 5, username |-> "eve", role_code |-> "INTERN"]
Users == {alice, bob, carol, dave, eve}

KeyOrder == <<"id", "username", "role_code", "phone">>
MaxNumber == 5
KnownStrings == {"id", "username", "role_code", "phone",
                 "alice", "bob", "carol", "dave", "eve",
                 "SUPER_ADMIN", "ANALYST", "OPS_MANAGER", "VENDOR_USER", "INTERN", "555"}

(***************************************************************************)
(* JSON.stringify / JSON.parse on these values                              *)
(***************************************************************************)
Quote(s) == "\"" \o s \o "\""
IsQuoted(p) == \E s \in KnownStrings : Quote(s) = p
Unquote(p) == CHOOSE s \in KnownStrings : Quote(s) = p
IsNumber(p) == \E n \in 0..MaxNumber : ToString(n) = p
NumberOf(p) == CHOOSE n \in 0..MaxNumber : ToString(n) = p

ValueText(k, v) == IF k = "id" THEN ToString(v) ELSE Quote(v)

RECURSIVE Members(_, _, _)
Members(obj, i, first) ==
    IF i > Len(KeyOrder) THEN <<>>
    ELSE IF KeyOrder[i] \in DOMAIN obj
         THEN (IF first THEN <<>> ELSE <<",">>)
              \o <<Quote(KeyOrder[i]), ":", ValueText(KeyOrder[i], obj[KeyOrder[i]])>>
              \o Members(obj, i + 1, FALSE)
         ELSE Members(obj, i + 1, first)

JSONstringify(v) ==
    IF v = null THEN Str(<<"null">>)
    ELSE Str(<<"{">> \o Members(v, 1, TRUE) \o <<"}">>)

ParseFail == [ok |-> FALSE, value |-> null]

RECURSIVE ParseMembers(_, _)
ParseMembers(ps, acc) ==
    IF Len(ps) >= 4 /\ IsQuoted(ps[1]) /\ ps[2] = ":" /\ (IsNumber(ps[3]) \/ IsQuoted(ps[3]))
    THEN LET val == IF IsNumber(ps[3]) THEN NumberOf(ps[3]) ELSE Unquote(ps[3])
             obj == (Unquote(ps[1]) :> val) @@ acc
         IN IF ps[4] = "}" THEN (IF Len(ps) = 4 THEN [ok |-> TRUE, value |-> obj] ELSE ParseFail)
            ELSE IF ps[4] = "," THEN ParseMembers(SubSeq(ps, 5, Len(ps)), obj)
            ELSE ParseFail
    ELSE ParseFail

\* ok = FALSE models the SyntaxError JSON.parse throws
JSONparse(s) ==
    LET ps == s.chars
    IN IF ps = <<"null">> THEN [ok |-> TRUE, value |-> null]
       ELSE IF Len(ps) >= 2 /\ ps[1] = "{"
            THEN (IF ps = <<"{", "}">> THEN [ok |-> TRUE, value |-> <<>>]
                  ELSE ParseMembers(Tail(ps), <<>>))
            ELSE ParseFail

(***************************************************************************)
(* Durable client-side storage: two independently addressable slots         *)
(***************************************************************************)
getItem(ls, key) == ls[key]
setItem(ls, key, value) == [ls EXCEPT ![key] = value]
removeItem(ls, key) == [ls EXCEPT ![key] = null]

(***************************************************************************)
(* AuthProvider                                                            *)
(***************************************************************************)
\* the effect with setIsLoading(false) moved inside the if (storedToken) block
AuthProviderEffect_LoadingStuck(a, ls) ==
    LET storedToken == getItem(ls, "auth_token")
        storedUser  == getItem(ls, "auth_user")
        parsed      == JSONparse(storedUser)
    IN IF Truthy(storedToken)
       THEN IF Truthy(storedUser)
            THEN IF parsed.ok
                 THEN [token |-> storedToken, user |-> parsed.value,
                       isLoading |-> FALSE, localStorage |-> ls]
                 ELSE [token |-> storedToken, user |-> a.user, isLoading |-> FALSE,
                       localStorage |-> removeItem(removeItem(ls, "auth_token"), "auth_user")]
            ELSE [token |-> storedToken, user |-> a.user,
                  isLoading |-> FALSE, localStorage |-> ls]
       ELSE [token |-> a.token, user |-> a.user, isLoading |-> a.isLoading,
             localStorage |-> ls]

\* the effect whose catch branch removes only the auth_user slot
AuthProviderEffect_KeepsToken(a, ls) ==
    LET storedToken == getItem(ls, "auth_token")
        storedUser  == getItem(ls, "auth_user")
        parsed      == JSONparse(storedUser)
    IN IF Truthy(storedToken)
       THEN IF Truthy(storedUser)
            THEN IF parsed.ok
                 THEN [token |-> storedToken, user |-> parsed.value,
                       isLoading |-> FALSE, localStorage |-> ls]
                 ELSE [token |-> storedToken, user |-> a.user, isLoading |-> FALSE,
                       localStorage |-> removeItem(ls, "auth_user")]
            ELSE [token |-> storedToken, user |-> a.user,
                  isLoading |-> FALSE, localStorage |-> ls]
       ELSE [token |-> a.token, user |-> a.user, isLoading |-> FALSE, localStorage |-> ls]

\* useEffect(() => {...}, []) : load token from localStorage on mount.
\* a is the provider state [token, user, isLoading]; the result carries the
\* provider state and the storage the effect leaves behind.
AuthProviderEffect(a, ls) ==
    LET storedToken == getItem(ls, "auth_token")
        storedUser  == getItem(ls, "auth_user")
        parsed      == JSONparse(storedUser)
    IN IF Truthy(storedToken)
       THEN IF Truthy(storedUser)
            THEN IF parsed.ok
                 THEN [token |-> storedToken, user |-> parsed.value,
                       isLoading |-> FALSE, localStorage |-> ls]
                 ELSE [token |-> storedToken, user |-> a.user, isLoading |-> FALSE,
                       localStorage |-> removeItem(removeItem(ls, "auth_token"), "auth_user")]
            ELSE [token |-> storedToken, user |-> a.user,
                  isLoading |-> FALSE, localStorage |-> ls]
       ELSE [token |-> a.token, user |-> a.user, isLoading |-> FALSE, localStorage |-> ls]

\* the slots the effect calls getItem on
AuthProviderEffectReads(ls) ==
    IF Truthy(getItem(ls, "auth_token")) THEN {"auth_token", "auth_user"}
    ELSE {"auth_token"}

\* React.StrictMode (main.tsx) runs a mount effect twice in a development
\* build and once in a production build; provider state survives the re-run.
RECURSIVE RunEffect(_, _, _)
RunEffect(a, ls, runs) ==
    IF runs = 0 THEN [token |-> a.token, user |-> a.user,
                      isLoading |-> a.isLoading, localStorage |-> ls]
    ELSE LET r == AuthProviderEffect(a, ls)
         IN RunEffect([token |-> r.token, user |-> r.user, isLoading |-> r.isLoading],
                      r.localStorage, runs - 1)

\* login() storing the user object without JSON.stringify
loginCommit_NoStringify(ls, data) ==
    [token |-> data.access_token, user |-> data.user,
     localStorage |-> setItem(setItem(ls, "auth_token", data.access_token),
                              "auth_user", Str(<<"[object Object]">>))]

\* login() without the setUser(userData) call
loginCommit_ForgetsUser(ls, data) ==
    [token |-> data.access_token, user |-> null,
     localStorage |-> setItem(setItem(ls, "auth_token", data.access_token),
                              "auth_user", JSONstringify(data.user))]

\* login() that keeps an identity already stored instead of replacing it
loginCommit_KeepsStoredUser(ls, data) ==
    [token |-> data.access_token, user |-> data.user,
     localStorage |-> IF getItem(ls, "auth_user") = null
                      THEN setItem(setItem(ls, "auth_token", data.access_token),
                                   "auth_user", JSONstringify(data.user))
                      ELSE setItem(ls, "auth_token", data.access_token)]

\* login() that persists the identity but not the credential
loginCommit_StoresUserOnly(ls, data) ==
    [token |-> data.access_token, user |-> data.user,
     localStorage |-> setItem(ls, "auth_user", JSONstringify(data.user))]

\* login() that takes the new credential but keeps an identity already stored
loginCommit_FirstIdentityWins(ls, data) ==
    IF getItem(ls, "auth_user") # null /\ JSONparse(getItem(ls, "auth_user")).ok
    THEN [token |-> data.access_token,
          user |-> JSONparse(getItem(ls, "auth_user")).value,
          localStorage |-> setItem(ls, "auth_token", data.access_token)]
    ELSE [token |-> data.access_token, user |-> data.user,
          localStorage |-> setItem(setItem(ls, "auth_token", data.access_token),
                                   "auth_user", JSONstringify(data.user))]

\* login() that persists the session but never calls setToken
loginCommit_ForgetsToken(ls, data) ==
    [token |-> null, user |-> data.user,
     localStorage |-> setItem(setItem(ls, "auth_token", data.access_token),
                              "auth_user", JSONstringify(data.user))]

\* login(), the part after the awaited response (success path)
loginCommit(ls, data) ==
    [token |-> data.access_token, user |-> data.user,
     localStorage |-> setItem(setItem(ls, "auth_token", data.access_token),
                              "auth_user", JSONstringify(data.user))]

\* login() throwing a new Error('Login failed') instead of the caught one
loginCatch_Wraps(err) == [status |-> 0, detail |-> undefined]

\* login(), catch branch: throw error
loginCatch(err) == err

\* logout() without removeItem('auth_token')
logout_KeepsStoredToken(ls) ==
    [token |-> null, user |-> null, localStorage |-> removeItem(ls, "auth_user")]

\* logout() without removeItem('auth_user')
logout_KeepsStoredUser(ls) ==
    [token |-> null, user |-> null, localStorage |-> removeItem(ls, "auth_token")]

\* logout()
logout(ls) ==
    [token |-> null, user |-> null,
     localStorage |-> removeItem(removeItem(ls, "auth_token"), "auth_user")]

\* value.isAuthenticated
isAuthenticated(t, u) == Truthy(t) /\ Truthy(u)

(***************************************************************************)
(* api client interceptors                                                 *)
(***************************************************************************)
Bearer(t) == Str(<<"Bearer ">> \o t.chars)

\* request interceptor reading a slot nobody writes
RequestInterceptor_WrongKey(ls) == undefined

\* request interceptor: the Authorization header of the dispatched request
RequestInterceptor(ls) ==
    LET t == getItem(ls, "auth_token")
    IN IF Truthy(t) THEN Bearer(t) ELSE undefined

\* the slot the request interceptor calls getItem on
RequestInterceptorReads == {"auth_token"}

\* api.get / api.post: the request interceptor stamps the new request's own
\* config; requests already dispatched are not touched
\* a client that keeps one shared header object: a dispatch re-stamps every
\* request still in flight
Dispatch_SharedHeaders(reqs, kind, ls) ==
    Append([i \in DOMAIN reqs |->
                [reqs[i] EXCEPT !.Authorization = RequestInterceptor(ls)]],
           [kind |-> kind, Authorization |-> RequestInterceptor(ls),
            orphan |-> FALSE])

Dispatch(reqs, kind, ls) ==
    Append(reqs, [kind |-> kind, Authorization |-> RequestInterceptor(ls),
                  orphan |-> FALSE])

Unauthorized == 401
ServerError == 500
NoResponse == 0     \* error.response is undefined: the backend was not reached

\* response interceptor that treats every answered error as an invalidation
ResponseInterceptor_ClearsOnAnyError(err, ls, href) ==
    IF err.status # NoResponse
    THEN [localStorage |-> removeItem(removeItem(ls, "auth_token"), "auth_user"),
          hrefAssigned |-> TRUE]
    ELSE [localStorage |-> ls, hrefAssigned |-> href]

\* response interceptor that forgets to remove the stored identity
ResponseInterceptor_KeepsStoredUser(err, ls, href) ==
    IF err.status = Unauthorized
    THEN [localStorage |-> removeItem(ls, "auth_token"), hrefAssigned |-> TRUE]
    ELSE [localStorage |-> ls, hrefAssigned |-> href]

\* the error object axios hands to the response interceptor: the response's
\* status and payload, and the config the request was sent with
AxiosError(err, req) ==
    [status |-> err.status, detail |-> err.detail,
     config |-> [Authorization |-> req.Authorization]]

\* response interceptor that ignores a 401 answering a request sent under a
\* credential other than the stored one
ResponseInterceptor_ComparesCredential(err, ls, href) ==
    IF err.status = Unauthorized
       /\ err.config.Authorization = (IF Truthy(getItem(ls, "auth_token"))
                                      THEN Str(<<"Bearer ">> \o getItem(ls, "auth_token").chars)
                                      ELSE undefined)
    THEN [localStorage |-> removeItem(removeItem(ls, "auth_token"), "auth_user"),
          hrefAssigned |-> TRUE]
    ELSE [localStorage |-> ls, hrefAssigned |-> href]

\* response interceptor that clears storage but assigns no location
ResponseInterceptor_NoRedirect(err, ls, href) ==
    IF err.status = Unauthorized
    THEN [localStorage |-> removeItem(removeItem(ls, "auth_token"), "auth_user"),
          hrefAssigned |-> href]
    ELSE [localStorage |-> ls, hrefAssigned |-> href]

\* response interceptor, rejection branch: storage and pending navigation
ResponseInterceptor(err, ls, href) ==
    IF err.status = Unauthorized
    THEN [localStorage |-> removeItem(removeItem(ls, "auth_token"), "auth_user"),
          hrefAssigned |-> TRUE]
    ELSE [localStorage |-> ls, hrefAssigned |-> href]

\* response interceptor that keeps a 401 to itself (returns a promise that never settles)
ResponseInterceptorResult_Swallows401(err) ==
    IF err.status = 401 THEN [settled |-> "pending", reason |-> err]
    ELSE [settled |-> "rejected", reason |-> err]

\* response interceptor, rejection branch: return Promise.reject(error)
ResponseInterceptorResult(err) == [settled |-> "rejected", reason |-> err]

\* the handler of the caller that a settled promise runs
Handler(result) ==
    IF result.settled = "rejected" THEN "catch"
    ELSE IF result.settled = "fulfilled" THEN "then"
    ELSE "none"

(***************************************************************************)
(* Views                                                                   *)
(***************************************************************************)
\* ProtectedRoute without the isAuthenticated test
ProtectedRoute_SkipsAuthCheck(authenticated, busy) ==
    IF busy THEN "Spin" ELSE "Outlet"

\* ProtectedRoute: what the gate returns
ProtectedRoute(authenticated, busy) ==
    IF busy THEN "Spin"
    ELSE IF ~authenticated THEN "Navigate"
    ELSE "Outlet"

\* DashboardLayout: null when it sees no user
DashboardLayout(u) == IF ~Truthy(u) THEN "null" ELSE "Layout"

LoginPath == "/login"
ProtectedPaths == {"/", "/operations", "/vendors", "/documents", "/analytics"}
UnknownPath == "/nowhere"
Paths == {LoginPath, UnknownPath} \cup ProtectedPaths

\* App: the element rendered for a location
\* a router that sends a user home from a page their role does not list
App_RoleGated(p, t, u, busy) ==
    IF p = LoginPath THEN "Login"
    ELSE IF p \in ProtectedPaths
         THEN LET gate == ProtectedRoute(isAuthenticated(t, u), busy)
              IN IF gate # "Outlet" THEN gate
                 ELSE IF p = "/analytics" /\ u.role_code \notin {"SUPER_ADMIN", "ANALYST"}
                      THEN "NavigateHome"
                      ELSE DashboardLayout(u)
         ELSE "NavigateHome"

App(p, t, u, busy) ==
    IF p = LoginPath THEN "Login"
    ELSE IF p \in ProtectedPaths
         THEN LET gate == ProtectedRoute(isAuthenticated(t, u), busy)
              IN IF gate = "Outlet" THEN DashboardLayout(u) ELSE gate
         ELSE "NavigateHome"

\* AppSidebar: the navigation items and the roles each is shown to
items == << [key |-> "home", label |-> "Dashboard", path |-> "/",
             roles |-> {"SUPER_ADMIN", "OPS_MANAGER", "VENDOR_USER", "ANALYST"}],
            [key |-> "ops", label |-> "Operations", path |-> "/operations",
             roles |-> {"SUPER_ADMIN", "OPS_MANAGER"}],
            [key |-> "vendors", label |-> "Vendors", path |-> "/vendors",
             roles |-> {"SUPER_ADMIN", "VENDOR_USER"}],
            [key |-> "docs", label |-> "Documents", path |-> "/documents",
             roles |-> {"SUPER_ADMIN", "OPS_MANAGER", "VENDOR_USER"}],
            [key |-> "analytics", label |-> "Analytics", path |-> "/analytics",
             roles |-> {"SUPER_ADMIN", "ANALYST"}] >>

\* items.filter((i) => i.roles.includes(role))
\* a filter that lets a role outside an entry's list through when the
\* entry is open to analysts
Includes_AnalystForAll(i, role) == role \in i.roles \/ "ANALYST" \in i.roles

Includes(i, role) == role \in i.roles
filtered(role) == SelectSeq(items, LAMBDA i : Includes(i, role))

\* the paths the menu entries navigate to
MenuPaths(role) == {filtered(role)[n].path : n \in DOMAIN filtered(role)}

\* filtered.some((i) => i.path === pathname) ? pathname : "/"
selectedKey(role, p) == IF p \in MenuPaths(role) THEN p ELSE "/"

Screen == App(pathname, token, user, isLoading)
Gate == ProtectedRoute(isAuthenticated(token, user), isLoading)

\* Login.onFinish, catch branch: the message handed to setError
GenericMessage == Str(<<"Login failed. Please try again.">>)
ErrorMessage(err) ==
    IF err.status # NoResponse /\ Truthy(err.detail) THEN err.detail ELSE GenericMessage

(***************************************************************************)
(* Environment: what storage may hold at start, what the backend answers   *)
(***************************************************************************)
NotJson == Str(<<"not json">>)
TruncatedJson == Str(<<"{", Quote("id"), ":", "1", ",">>)
TokenSlots == {null, EmptyString, tok1, tok2}
UserSlots == {null, EmptyString, NotJson, TruncatedJson, Str(<<"null">>)}
             \cup {JSONstringify(u) : u \in Users}

\* successful login payloads { access_token, user }
LoginResponses == {[access_token |-> tok1, user |-> alice],
                   [access_token |-> tok2, user |-> bob],
                   [access_token |-> tok1, user |-> carol],
                   [access_token |-> tok2, user |-> dave],
                   [access_token |-> tok1, user |-> eve]}

\* rejections: a response with a status and an optional detail, or no response
InvalidCredentials == Str(<<"Invalid credentials">>)
Errors == {[status |-> st, detail |-> d] :
               st \in {Unauthorized, ServerError}, d \in {InvalidCredentials, undefined}}
          \cup {[status |-> NoResponse, detail |-> undefined]}

NoBefore == [none |-> TRUE]
EmptyStorage == [auth_token |-> null, auth_user |-> null]

(***************************************************************************)
(* OperationsMap: the hub list is fetched through the api client, every     *)
(* hub with a pincode is geocoded in turn, then setHubs is called           *)
(***************************************************************************)
MaxHubs == 2

NaN == [js |-> "NaN"]
Num(n) == [num |-> n]
\* parseFloat on the texts a geocoder reply carries
parseFloat(s) ==
    IF Len(s.chars) = 1 /\ IsNumber(s.chars[1]) THEN Num(NumberOf(s.chars[1])) ELSE NaN

\* rows of /api/hubs/status; pincode may be missing or empty
hubDEL == [hub_code |-> "DEL", pincode |-> Str(<<"110001">>), status |-> "OPERATIONAL"]
hubBOM == [hub_code |-> "BOM", pincode |-> Str(<<"400001">>), status |-> "DOWN"]
hubBLR == [hub_code |-> "BLR", pincode |-> EmptyString, status |-> "CONGESTED"]
HubRows == {hubDEL, hubBOM, hubBLR}
HubLists == UNION {{h \in [1..n -> HubRows] : \A a, b \in 1..n : a # b => h[a] # h[b]} :
                       n \in 0..MaxHubs}

\* what the geocoder call can come back with: fetch rejects, the body is not
\* JSON, the body is JSON null, a JSON object, or a JSON array of matches
GeocodeReplies ==
    {[kind |-> "rejects"], [kind |-> "notJson"], [kind |-> "jsonNull"],
     [kind |-> "object"],
     [kind |-> "array", data |-> <<>>],
     [kind |-> "array", data |-> <<[lat |-> Str(<<"2">>), lon |-> Str(<<"3">>)]>>],
     [kind |-> "array", data |-> <<[lat |-> Str(<<"x">>), lon |-> Str(<<"3">>)]>>]}

\* geocodePincode after the fetch has settled
geocodePincode(reply) ==
    IF reply.kind = "array"
    THEN IF Len(reply.data) > 0
         THEN [lat |-> parseFloat(reply.data[1].lat),
               lng |-> parseFloat(reply.data[1].lon)]
         ELSE null
    ELSE null

\* { ...hub, ...coords }
Spread(hub, coords) == coords @@ hub

\* a promise chain of the mount effect, before the hub list has arrived
NewChain == [pc |-> "get", data |-> <<>>, i |-> 1, withCoords |-> <<>>,
             replies |-> <<>>]

\* the for-loop from hub i on, up to the next await or to its end
RECURSIVE Continue(_)
Continue(c) ==
    IF c.i > Len(c.data) THEN [c EXCEPT !.pc = "done"]
    ELSE IF ~Truthy(c.data[c.i].pincode) THEN Continue([c EXCEPT !.i = @ + 1])
    ELSE [c EXCEPT !.pc = "geocode"]

\* the then-callback entered with res.data
Entered(c, data) ==
    Continue([c EXCEPT !.data = data, !.i = 1, !.withCoords = <<>>,
                       !.replies = [n \in 1..Len(data) |-> undefined]])

\* a loop that gives up at the first hub without coordinates
Resumed_StopsAtFailure(c, reply) ==
    LET coords == geocodePincode(reply)
        noted  == [c EXCEPT !.replies[c.i] = reply]
    IN IF coords # null
       THEN Continue([noted EXCEPT !.withCoords = Append(@, Spread(c.data[c.i], coords)),
                                   !.i = @ + 1])
       ELSE [noted EXCEPT !.pc = "done"]

\* the loop resumed after await geocodePincode(hub.pincode)
Resumed(c, reply) ==
    LET coords == geocodePincode(reply)
        noted  == [c EXCEPT !.replies[c.i] = reply]
    IN IF coords # null
       THEN Continue([noted EXCEPT !.withCoords = Append(@, Spread(c.data[c.i], coords)),
                                   !.i = @ + 1])
       ELSE Continue([noted EXCEPT !.i = @ + 1])

\* setHubs(withCoords), reached when the loop has ended
setHubs(c, current) == IF c.pc = "done" THEN c.withCoords ELSE current

(***************************************************************************)
(* ChatBot                                                                  *)
(***************************************************************************)
Welcome == [id |-> 1, sender |-> "ai",
            text |-> Str(<<"Hi! Ask me about exceptions, vendors, or shipment status.">>)]

MaxQuestions == 3

Thinking == Str(<<"Thinking...">>)
CouldNotReach == Str(<<"Could not reach AI service. Is botbrain running on port 8001?">>)

\* String.prototype.trim on a string whose whitespace pieces are " "
RECURSIVE TrimStart(_)
TrimStart(ps) == IF ps # <<>> /\ Head(ps) = " " THEN TrimStart(Tail(ps)) ELSE ps
RECURSIVE TrimEnd(_)
TrimEnd(ps) ==
    IF ps # <<>> /\ ps[Len(ps)] = " " THEN TrimEnd(SubSeq(ps, 1, Len(ps) - 1)) ELSE ps
trim(s) == Str(TrimEnd(TrimStart(s.chars)))

\* what the user can have typed into the input
Inputs == {EmptyString, Str(<<" ">>), Str(<<"q1">>), Str(<<" ", "q2">>)}

\* bodies the chat service answers with: { reply: ... } or JSON without reply
ChatBodies == {[reply |-> Str(<<"a1">>)], [reply |-> Str(<<"a2">>)],
               [reply |-> undefined]}

\* handleSend up to its await: the two messages appended by the functional
\* update, built from the messages and inputValue of the current render
userMessage(msgs, input) == [id |-> Len(msgs) + 1, sender |-> "user", text |-> input]
thinkingMessage(msgs) == [id |-> Len(msgs) + 2, sender |-> "ai", text |-> Thinking]
Appended(msgs, input) == msgs \o <<userMessage(msgs, input), thinkingMessage(msgs)>>

\* a replacement that looks for the placeholder text instead of the id
Replaced_ByText(prev, thinkingId, text) ==
    [n \in 1..Len(prev) |->
        IF prev[n].text = Thinking THEN [prev[n] EXCEPT !.text = text] ELSE prev[n]]

\* prev.map((m) => m.id === thinkingId ? { ...m, text } : m)
Replaced(prev, thinkingId, text) ==
    [n \in 1..Len(prev) |->
        IF prev[n].id = thinkingId THEN [prev[n] EXCEPT !.text = text] ELSE prev[n]]

\* both widgets as they are when nothing has mounted them
WidgetsInit ==
    /\ hubs = <<>>
    /\ chains = <<>>
    /\ messages = <<Welcome>>
    /\ inputValue = EmptyString
    /\ sends = <<>>

(***************************************************************************)
(* State machine                                                           *)
(***************************************************************************)
Init ==
    /\ localStorage \in [auth_token : TokenSlots, auth_user : UserSlots]
    /\ token = null
    /\ user = null
    /\ isLoading = TRUE
    /\ pathname \in Paths
    /\ loading = FALSE
    /\ error = null
    /\ inflight = <<>>
    /\ hrefAssigned = FALSE
    /\ ev = [op |-> "load"]
    /\ before = NoBefore
    /\ attempt = null
    /\ reads = {}
    /\ WidgetsInit

\* no mount effect is waiting to run: user events and timers are served
Idle == ~isLoading /\ Screen \notin {"Navigate", "NavigateHome"}

Remove(seq, i) == SubSeq(seq, 1, i - 1) \o SubSeq(seq, i + 1, Len(seq))

\* the Login view is unmounted: its pending login calls lose their view
Orphaned(reqs) == [i \in DOMAIN reqs |-> [reqs[i] EXCEPT !.orphan = TRUE]]

\* the router moves to location p; Login view state lives while /login is shown
Goto(p) ==
    /\ pathname' = p
    /\ IF p = LoginPath /\ pathname = LoginPath
       THEN UNCHANGED <<loading, error>>
       ELSE loading' = FALSE /\ error' = null

\* AuthProvider mount effect
Initialize ==
    /\ isLoading
    /\ \E runs \in 1..2 :
         LET r == RunEffect([token |-> token, user |-> user, isLoading |-> isLoading],
                            localStorage, runs)
         IN /\ token' = r.token
            /\ user' = r.user
            /\ isLoading' = r.isLoading
            /\ localStorage' = r.localStorage
    /\ ev' = [op |-> "initialize"]
    /\ reads' = AuthProviderEffectReads(localStorage)
    /\ UNCHANGED widgets
    /\ UNCHANGED <<pathname, loading, error, inflight, hrefAssigned, before, attempt>>

\* <Navigate to="/login" replace /> returned by ProtectedRoute
RedirectToLogin ==
    /\ Screen = "Navigate"
    /\ Goto(LoginPath)
    /\ ev' = [op |-> "redirect"]
    /\ reads' = {}
    /\ UNCHANGED widgets
    /\ UNCHANGED <<localStorage, token, user, isLoading, inflight, hrefAssigned,
                   before, attempt>>

\* catch-all route: <Navigate to="/" replace />
RedirectHome ==
    /\ Screen = "NavigateHome"
    /\ Goto("/")
    /\ ev' = [op |-> "home"]
    /\ reads' = {}
    /\ UNCHANGED widgets
    /\ UNCHANGED <<localStorage, token, user, isLoading, inflight, hrefAssigned,
                   before, attempt>>

\* Login.onFinish up to the await: login() posts through the api client
SubmitLogin ==
    /\ Idle
    /\ Screen = "Login"
    /\ Len(inflight) < MaxInFlight
    /\ loading' = TRUE
    /\ error' = null
    /\ inflight' = Dispatch(inflight, "login", localStorage)
    /\ reads' = RequestInterceptorReads
    /\ UNCHANGED widgets
    /\ ev' = [op |-> "submit"]
    /\ attempt' = null
    /\ before' = NoBefore
    /\ UNCHANGED <<localStorage, token, user, isLoading, pathname, hrefAssigned>>

\* a dashboard page calls api.get(...)
FetchData ==
    /\ Idle
    /\ Screen = "Layout"
    /\ Len(inflight) < MaxInFlight
    /\ inflight' = Dispatch(inflight, "data", localStorage)
    /\ reads' = RequestInterceptorReads
    /\ UNCHANGED widgets
    /\ ev' = [op |-> "fetch"]
    /\ before' = NoBefore
    /\ UNCHANGED <<localStorage, token, user, isLoading, pathname, loading, error,
                   hrefAssigned, attempt>>

\* the login response arrives with 2xx: login() commits, onFinish navigates home
LoginResolved(i, data) ==
    /\ i \in DOMAIN inflight
    /\ inflight[i].kind = "login"
    /\ LET c == loginCommit(localStorage, data)
       IN /\ token' = c.token
          /\ user' = c.user
          /\ localStorage' = c.localStorage
    /\ Goto("/")
    /\ inflight' = (IF pathname = LoginPath THEN Orphaned(Remove(inflight, i))
                    ELSE Remove(inflight, i))
    /\ ev' = [op |-> "loginOk", data |-> data, orphan |-> inflight[i].orphan]
    /\ reads' = {}
    /\ UNCHANGED widgets
    /\ attempt' = null
    /\ before' = NoBefore
    /\ UNCHANGED <<isLoading, hrefAssigned>>

\* the login call fails: response interceptor, login() rethrows, onFinish catch/finally
LoginRejected(i, err) ==
    /\ i \in DOMAIN inflight
    /\ inflight[i].kind = "login"
    /\ LET r == ResponseInterceptor(AxiosError(err, inflight[i]), localStorage,
                                    hrefAssigned)
       IN /\ localStorage' = r.localStorage
          /\ hrefAssigned' = r.hrefAssigned
    /\ LET result == ResponseInterceptorResult(err)
           thrown == loginCatch(result.reason)
       IN /\ IF inflight[i].orphan \/ Handler(result) # "catch"
             THEN UNCHANGED <<loading, error, attempt>>
             ELSE /\ error' = ErrorMessage(thrown)
                  /\ loading' = FALSE
                  /\ attempt' = thrown
          /\ ev' = [op |-> "loginFailed", err |-> err, handler |-> Handler(result),
                    orphan |-> inflight[i].orphan,
                    sent |-> inflight[i].Authorization]
    /\ inflight' = Remove(inflight, i)
    /\ reads' = {}
    /\ UNCHANGED widgets
    /\ before' = NoBefore
    /\ UNCHANGED <<token, user, isLoading, pathname>>

\* a data request succeeds: the page's then-handler runs
DataResolved(i) ==
    /\ i \in DOMAIN inflight
    /\ inflight[i].kind = "data"
    /\ inflight' = Remove(inflight, i)
    /\ ev' = [op |-> "dataOk"]
    /\ reads' = {}
    /\ UNCHANGED widgets
    /\ before' = NoBefore
    /\ UNCHANGED <<localStorage, token, user, isLoading, pathname, loading, error,
                   hrefAssigned, attempt>>

\* a data request fails: response interceptor, then the page's catch-handler
DataRejected(i, err) ==
    /\ i \in DOMAIN inflight
    /\ inflight[i].kind = "data"
    /\ LET r == ResponseInterceptor(AxiosError(err, inflight[i]), localStorage,
                                    hrefAssigned)
       IN /\ localStorage' = r.localStorage
          /\ hrefAssigned' = r.hrefAssigned
    /\ inflight' = Remove(inflight, i)
    /\ ev' = [op |-> "dataFailed", err |-> err,
              handler |-> Handler(ResponseInterceptorResult(err)),
              sent |-> inflight[i].Authorization]
    /\ reads' = {}
    /\ UNCHANGED widgets
    /\ before' = NoBefore
    /\ UNCHANGED <<token, user, isLoading, pathname, loading, error, attempt>>

\* AppSidebar.handleLogout: logout(); nav('/login')
Logout ==
    /\ Idle
    /\ Screen = "Layout"
    /\ LET c == logout(localStorage)
       IN /\ token' = c.token
          /\ user' = c.user
          /\ localStorage' = c.localStorage
    /\ Goto(LoginPath)
    /\ ev' = [op |-> "logout"]
    /\ reads' = {}
    /\ UNCHANGED widgets
    /\ attempt' = null
    /\ before' = NoBefore
    /\ UNCHANGED <<isLoading, inflight, hrefAssigned>>

\* a sidebar entry is clicked: nav(i.path)
NavTo(p) ==
    /\ Idle
    /\ Screen = "Layout"
    /\ p \in MenuPaths(user.role_code)
    /\ p # pathname
    /\ Goto(p)
    /\ ev' = [op |-> "nav"]
    /\ reads' = {}
    /\ UNCHANGED widgets
    /\ before' = NoBefore
    /\ UNCHANGED <<localStorage, token, user, isLoading, inflight, hrefAssigned, attempt>>

\* the Login view's Alert is closed: setError(null)
CloseAlert ==
    /\ Idle
    /\ Screen = "Login"
    /\ error # null
    /\ error' = null
    /\ ev' = [op |-> "close"]
    /\ reads' = {}
    /\ UNCHANGED widgets
    /\ attempt' = null
    /\ before' = NoBefore
    /\ UNCHANGED <<localStorage, token, user, isLoading, pathname, loading,
                   inflight, hrefAssigned>>

\* a new document is loaded at p: a new process lifetime over the same storage
NewProcess(p) ==
    /\ token' = null
    /\ user' = null
    /\ isLoading' = TRUE
    /\ pathname' = p
    /\ loading' = FALSE
    /\ error' = null
    /\ inflight' = <<>>
    /\ hrefAssigned' = FALSE
    /\ before' = (IF ev.op = "loginOk" THEN [token |-> token, user |-> user]
                  ELSE NoBefore)
    /\ reads' = {}
    /\ hubs' = <<>>
    /\ chains' = <<>>
    /\ messages' = <<Welcome>>
    /\ inputValue' = EmptyString
    /\ sends' = <<>>
    /\ UNCHANGED localStorage

\* the navigation started by window.location.href = '/login' completes
PageLoad ==
    /\ hrefAssigned
    /\ NewProcess(LoginPath)
    /\ ev' = [op |-> "pageload"]
    /\ UNCHANGED attempt

\* the user reloads the page or opens the application at p
\* (not while a navigation is already under way)
Restart(p) ==
    /\ ~hrefAssigned
    /\ NewProcess(p)
    /\ ev' = [op |-> "restart"]
    /\ attempt' = null

Next ==
    \/ Initialize
    \/ RedirectToLogin
    \/ RedirectHome
    \/ SubmitLogin
    \/ FetchData
    \/ \E i \in 1..MaxInFlight, data \in LoginResponses : LoginResolved(i, data)
    \/ \E i \in 1..MaxInFlight, err \in Errors : LoginRejected(i, err)
    \/ \E i \in 1..MaxInFlight : DataResolved(i)
    \/ \E i \in 1..MaxInFlight, err \in Errors : DataRejected(i, err)
    \/ Logout
    \/ \E p \in ProtectedPaths : NavTo(p)
    \/ CloseAlert
    \/ PageLoad
    \/ \E p \in Paths : Restart(p)

Spec == Init /\ [][Next]_vars

\* Scheduling the runtime guarantees: a mount effect runs, a started
\* navigation completes.  Nothing obliges the user or the backend to act.
FairSpec ==
    Spec /\ WF_vars(Initialize) /\ WF_vars(RedirectToLogin) /\ WF_vars(RedirectHome)
         /\ WF_vars(PageLoad)

(***************************************************************************)
(* OperationsMap on a page of a signed-in user.  React.StrictMode runs the  *)
(* mount effect once (production build) or twice (development build); each  *)
(* run issues its own GET and owns its own withCoords.                      *)
(***************************************************************************)
SignedIn ==
    /\ localStorage = [auth_token |-> tok1, auth_user |-> JSONstringify(alice)]
    /\ token = tok1
    /\ user = alice
    /\ isLoading = FALSE
    /\ pathname = "/operations"
    /\ loading = FALSE
    /\ error = null
    /\ inflight = <<>>
    /\ hrefAssigned = FALSE
    /\ before = NoBefore
    /\ attempt = null
    /\ reads = {}

MapInit ==
    /\ SignedIn
    /\ ev = [op |-> "mount"]
    /\ hubs = <<>>
    /\ chains \in {<<NewChain>>, <<NewChain, NewChain>>}
    /\ messages = <<Welcome>>
    /\ inputValue = EmptyString
    /\ sends = <<>>

\* GET /api/hubs/status is answered with 2xx: the then-callback runs up to
\* its first await, or to setHubs when no hub has a pincode
HubsResolved(r, data) ==
    /\ r \in DOMAIN chains
    /\ chains[r].pc = "get"
    /\ LET c == Entered(chains[r], data)
       IN /\ chains' = [chains EXCEPT ![r] = c]
          /\ hubs' = setHubs(c, hubs)
          /\ ev' = [op |-> "hubsOk", run |-> r, setHubs |-> (c.pc = "done")]
    /\ UNCHANGED <<localStorage, token, user, isLoading, pathname, loading, error,
                   inflight, hrefAssigned, before, attempt, reads>>
    /\ UNCHANGED <<messages, inputValue, sends>>

\* GET /api/hubs/status fails: the response interceptor runs, the chain has
\* no catch, the then-callback never runs
HubsRejected(r, err) ==
    /\ r \in DOMAIN chains
    /\ chains[r].pc = "get"
    /\ LET x == ResponseInterceptor(
                    AxiosError(err, [Authorization |-> RequestInterceptor(localStorage)]),
                    localStorage, hrefAssigned)
       IN /\ localStorage' = x.localStorage
          /\ hrefAssigned' = x.hrefAssigned
    /\ chains' = [chains EXCEPT ![r].pc = "rejected"]
    /\ ev' = [op |-> "hubsFailed", run |-> r, err |-> err, setHubs |-> FALSE]
    /\ UNCHANGED <<token, user, isLoading, pathname, loading, error,
                   inflight, before, attempt, reads>>
    /\ UNCHANGED <<hubs, messages, inputValue, sends>>

\* the geocoder call a chain is awaiting settles: the loop goes on to its
\* next await or to setHubs
Geocoded(r, reply) ==
    /\ r \in DOMAIN chains
    /\ chains[r].pc = "geocode"
    /\ LET c == Resumed(chains[r], reply)
       IN /\ chains' = [chains EXCEPT ![r] = c]
          /\ hubs' = setHubs(c, hubs)
          /\ ev' = [op |-> "geocoded", run |-> r, setHubs |-> (c.pc = "done")]
    /\ UNCHANGED <<localStorage, token, user, isLoading, pathname, loading, error,
                   inflight, hrefAssigned, before, attempt, reads>>
    /\ UNCHANGED <<messages, inputValue, sends>>

MapNext ==
    \/ \E r \in 1..2, data \in HubLists : HubsResolved(r, data)
    \/ \E r \in 1..2, err \in Errors : HubsRejected(r, err)
    \/ \E r \in 1..2, reply \in GeocodeReplies : Geocoded(r, reply)

MapSpec == MapInit /\ [][MapNext]_vars

(***************************************************************************)
(* ChatBot inside the layout of a signed-in user.  Every event handler     *)
(* runs on the render that follows the previous state update.              *)
(***************************************************************************)
ChatInit ==
    /\ SignedIn
    /\ ev = [op |-> "mount"]
    /\ WidgetsInit

\* onChange of the input: setInputValue(e.target.value)
Type(v) ==
    /\ v # inputValue
    /\ inputValue' = v
    /\ ev' = [op |-> "type"]
    /\ UNCHANGED <<session_but_ev, hubs, chains, messages, sends>>

\* handleSend up to await fetch(...)
handleSend ==
    /\ trim(inputValue) # EmptyString
    /\ (Len(messages) - 1) \div 2 < MaxQuestions
    /\ messages' = Appended(messages, inputValue)
    /\ inputValue' = EmptyString
    /\ sends' = Append(sends, [thinkingId |-> thinkingMessage(messages).id,
                               message |-> inputValue])
    /\ ev' = [op |-> "send", thinkingId |-> thinkingMessage(messages).id]
    /\ UNCHANGED <<session_but_ev, hubs, chains>>

\* the fetch of send k resolved and its body parsed: the placeholder gets data.reply
ChatReplied(k, data) ==
    /\ k \in DOMAIN sends
    /\ messages' = Replaced(messages, sends[k].thinkingId, data.reply)
    /\ sends' = Remove(sends, k)
    /\ ev' = [op |-> "reply", send |-> sends[k], text |-> data.reply]
    /\ UNCHANGED <<session_but_ev, hubs, chains, inputValue>>

\* the fetch of send k rejected, or its body was not JSON: the catch branch
ChatFailed(k) ==
    /\ k \in DOMAIN sends
    /\ messages' = Replaced(messages, sends[k].thinkingId, CouldNotReach)
    /\ sends' = Remove(sends, k)
    /\ ev' = [op |-> "chatFailed", send |-> sends[k], text |-> CouldNotReach]
    /\ UNCHANGED <<session_but_ev, hubs, chains, inputValue>>

ChatNext ==
    \/ \E v \in Inputs : Type(v)
    \/ handleSend
    \/ \E k \in 1..MaxQuestions, data \in ChatBodies : ChatReplied(k, data)
    \/ \E k \in 1..MaxQuestions : ChatFailed(k)

ChatSpec == ChatInit /\ [][ChatNext]_vars

(***************************************************************************)
(* Properties                                                              *)
(***************************************************************************)
Is401(e) == e.op \in {"loginFailed", "dataFailed"} /\ e.err.status = 401

\* C1: a protected view is on screen only when the session is resolved and
\* both credential and identity are in memory; on a protected location the
\* gate shows the spinner while loading and the redirect while resolved but
\* unauthenticated; DashboardLayout never falls into its user = null branch.
C1_GateGrantsOnlyResolvedAuthenticated ==
    /\ Screen \in {"Layout", "null"} =>
           ~isLoading /\ token \in AccessTokens /\ user \in Users
    /\ (pathname \in ProtectedPaths /\ isLoading) => Screen = "Spin"
    /\ (pathname \in ProtectedPaths /\ ~isLoading /\ ~(token \in AccessTokens /\ user \in Users))
           => Screen = "Navigate"
    /\ Screen # "null"

C1_Witness == Screen = "Layout" /\ ev.op = "initialize"

\* C2 (P5): whenever a 401 response has been handled, whatever else is in
\* flight, the page is eventually reloaded at /login with isAuthenticated false.
C2_UnauthorizedForcesLogin ==
    Is401(ev) ~> (ev.op = "pageload" /\ pathname = LoginPath
                    /\ ~(Truthy(token) /\ Truthy(user)))

C2_Witness ==
    /\ ev.op = "dataFailed" /\ ev.err.status = 401
    /\ token \in AccessTokens /\ user \in Users
    /\ Len(inflight) > 0

\* C3 as stated: a logout or a 401 invalidation that finds the gate granted
\* leaves memory and both storage slots empty and the gate denied.
C3_ClearEmptiesMemoryAndStorage ==
    [][ ((ev'.op = "logout" \/ Is401(ev')) /\ Gate = "Outlet") =>
            /\ token' = null /\ user' = null
            /\ localStorage' = EmptyStorage
            /\ Gate' = "Navigate" ]_vars

\* C3 amended: logout empties memory and both storage slots and takes the gate
\* from granted to denied; a 401 invalidation empties both storage slots and
\* starts a page load of /login without touching the values in memory, which
\* are dropped when that page load begins the next process lifetime.
C3_ClearAmended ==
    [][ /\ (ev'.op = "logout" =>
               /\ token' = null /\ user' = null
               /\ localStorage' = EmptyStorage
               /\ Gate = "Outlet" /\ Gate' = "Navigate")
        /\ (Is401(ev') =>
               /\ localStorage' = EmptyStorage
               /\ hrefAssigned'
               /\ token' = token /\ user' = user)
        /\ (ev'.op = "pageload" =>
               /\ hrefAssigned
               /\ token' = null /\ user' = null /\ Gate' = "Spin") ]_vars

C3_Witness ==
    /\ Is401(ev)
    /\ token \in AccessTokens /\ user \in Users
    /\ localStorage = EmptyStorage /\ hrefAssigned

\* C4: isLoading is true at process start, is set to false only by the mount
\* effect, is set back to true only by a page load, and every process
\* lifetime reaches the resolved state.
C4_ResolvedOnce ==
    /\ isLoading = TRUE
    /\ [][ /\ (isLoading /\ ~isLoading') => ev'.op = "initialize"
           /\ (~isLoading /\ isLoading') => ev'.op \in {"pageload", "restart"}
           /\ ev'.op = "initialize" => ~isLoading' ]_vars
    /\ (isLoading ~> ~isLoading)

C4_Witness == ~isLoading /\ ev.op = "loginFailed" /\ token \in AccessTokens

\* C5 as stated: the identity is in memory iff the credential is in memory.
C5_IdentityIffCredential == (user # null) <=> (token # null)

\* C6 (P4): a request is dispatched with Authorization "Bearer <token>" when
\* the auth_token slot holds a (non-empty) credential at dispatch, and with
\* no Authorization header otherwise.
C6_HeaderMatchesStoredCredential ==
    [][ Len(inflight') = Len(inflight) + 1 =>
           inflight'[Len(inflight')].Authorization =
               (IF localStorage.auth_token \in AccessTokens
                THEN Str(<<"Bearer ">> \o localStorage.auth_token.chars)
                ELSE undefined) ]_vars

C6_Witness ==
    /\ Len(inflight) = 2
    /\ inflight[1].Authorization = Str(<<"Bearer ", "tok1">>)
    /\ inflight[2].Authorization = undefined

\* C7 (P7): the mount effect, run over a stored credential and a malformed
\* stored identity, leaves both slots empty, isAuthenticated false, the
\* session resolved and no error on screen.
C7_MalformedIdentityDiscardsBoth ==
    [][ (ev'.op = "initialize" /\ localStorage.auth_token \in AccessTokens
           /\ localStorage.auth_user \in {NotJson, TruncatedJson}) =>
            /\ localStorage' = EmptyStorage
            /\ ~(Truthy(token') /\ Truthy(user'))
            /\ ~isLoading'
            /\ error' = null ]_vars

C7_Witness ==
    ev.op = "initialize" /\ localStorage = EmptyStorage /\ token = tok1 /\ user = null

\* C8 (P3): a page reload right after a login commit, once the mount effect
\* has run, shows the same credential and identity as before the reload,
\* authenticated and resolved.
C8_RoundTrip ==
    (ev.op = "initialize" /\ before # NoBefore) =>
        /\ token = before.token
        /\ user = before.user
        /\ token \in AccessTokens /\ user \in Users
        /\ ~isLoading

C8_Witness == ev.op = "initialize" /\ before # NoBefore /\ user = bob

\* C9 (P2): right after a successful login both returned values are in memory
\* and in storage, isAuthenticated is true and user is the returned identity.
C9_LoginCommits ==
    ev.op = "loginOk" =>
        /\ token = ev.data.access_token
        /\ user = ev.data.user
        /\ localStorage.auth_token = ev.data.access_token
        /\ Truthy(localStorage.auth_user)
        /\ JSONparse(localStorage.auth_user) = [ok |-> TRUE, value |-> ev.data.user]
        /\ token # null /\ user # null

C9_Witness == ev.op = "loginOk" /\ user = alice /\ localStorage.auth_token = tok1

\* C10 (P8) as stated: as long as the user has not acted since a login attempt
\* failed with a detail in its payload, the Login view shows exactly that
\* detail, whatever the status of the rejection.
C10_LoginViewShowsDetail ==
    (attempt # null /\ attempt.detail = InvalidCredentials) => error = attempt.detail

\* C11: a login submit dispatches exactly one login request and leaves the
\* pending ones alone; handling a response (success or failure, login or
\* data) removes the answered request and dispatches nothing, so nothing is
\* retried; the error a failed login rejects with is the error object the
\* Login view's catch receives.
C11_OneRequestNoRetry ==
    [][ /\ ev'.op = "submit" =>
               /\ Len(inflight') = Len(inflight) + 1
               /\ inflight'[Len(inflight')].kind = "login"
               /\ SubSeq(inflight', 1, Len(inflight)) = inflight
        /\ ev'.op \in {"loginFailed", "dataFailed", "loginOk", "dataOk"} =>
               Len(inflight') = Len(inflight) - 1
        /\ (ev'.op = "loginFailed" /\ ~ev'.orphan) => attempt' = ev'.err ]_vars

C11_Witness ==
    /\ ev.op = "loginFailed" /\ ~ev.orphan
    /\ ev.err = [status |-> ServerError, detail |-> InvalidCredentials]
    /\ attempt = ev.err
    /\ inflight = <<>>

\* C12 as stated: for a 401 response the caller's catch branch does not run.
C12_UnauthorizedNotSurfaced == Is401(ev) => ev.handler # "catch"

\* C12 amended: a 401 response is handled by the interceptor (both slots
\* removed, page load of /login started) and is also rejected to the caller,
\* whose catch branch runs; the Login view's catch then sets its error.
C12_UnauthorizedAlsoSurfaced ==
    Is401(ev) =>
        /\ ev.handler = "catch"
        /\ localStorage = EmptyStorage
        /\ hrefAssigned
        /\ (ev.op = "loginFailed" /\ ~ev.orphan) => (error # null /\ ~loading)

C12_Witness ==
    /\ ev.op = "loginFailed" /\ ev.err.status = 401 /\ ~ev.orphan
    /\ ev.handler = "catch"
    /\ error = InvalidCredentials
    /\ hrefAssigned

\* C13 (P6): a logout leaves memory and both slots cleared and isLoading as it
\* was, and running logout() once more on that state, or on any storage
\* content, gives the state the first run gave.
C13_LogoutIdempotent ==
    [][ ev'.op = "logout" =>
            /\ token' = null /\ user' = null
            /\ localStorage' = EmptyStorage
            /\ isLoading' = isLoading
            /\ logout(localStorage') =
                   [token |-> token', user |-> user', localStorage |-> localStorage']
            /\ \A ls \in [auth_token : TokenSlots, auth_user : UserSlots] :
                   logout(logout(ls).localStorage) = logout(ls) ]_vars

C13_Witness ==
    /\ ev.op = "logout"
    /\ token = null /\ user = null /\ localStorage = EmptyStorage
    /\ pathname = LoginPath /\ ~isLoading

\* C14 (P1): the mount effect run over two empty slots leaves isAuthenticated
\* false, the session resolved and the gate denied.
C14_InitializeFromNothing ==
    [][ (ev'.op = "initialize" /\ localStorage = EmptyStorage) =>
            /\ ~(Truthy(token') /\ Truthy(user'))
            /\ token' = null /\ user' = null
            /\ ~isLoading'
            /\ Gate' = "Navigate"
            /\ localStorage' = EmptyStorage ]_vars

C14_Witness ==
    /\ ev.op = "initialize"
    /\ localStorage = EmptyStorage /\ token = null /\ user = null
    /\ ~isLoading /\ Gate = "Navigate"

\* C15 as stated: every login request is dispatched without an Authorization
\* header.
C15_LoginWithoutHeader ==
    [][ ev'.op = "submit" =>
            inflight'[Len(inflight')].Authorization = undefined ]_vars

\* C15 amended: the login request goes through the request interceptor like
\* any other: it carries no Authorization header exactly when the auth_token
\* slot holds no credential at dispatch, and the stored credential as a
\* bearer header otherwise.
C15_LoginHeaderFollowsStorage ==
    [][ ev'.op = "submit" =>
            LET sent == inflight'[Len(inflight')].Authorization
                slot == localStorage.auth_token
            IN /\ sent = undefined <=> slot \notin AccessTokens
               /\ sent # undefined => sent = Str(<<"Bearer ">> \o slot.chars) ]_vars

C15_Witness ==
    /\ Len(inflight) = 1
    /\ inflight[1].kind = "login"
    /\ inflight[1].Authorization = Str(<<"Bearer ", "tok1">>)
    /\ token = tok1 /\ user = null
    /\ pathname = LoginPath

\* C16 as stated: only the mount effect reads the two slots, and only login
\* commit and clear (logout, 401 invalidation) write them.
C16_StorageTouchedOnlyByStore ==
    [][ /\ reads' # {} => ev'.op = "initialize"
        /\ localStorage' # localStorage =>
               (ev'.op \in {"loginOk", "logout"} \/ Is401(ev')) ]_vars

\* C16 amended: the slots are read by the mount effect and, auth_token only,
\* by the request interceptor at every dispatch, and by nothing else; they
\* are written by login commit, by logout, by the response interceptor on a
\* 401, and by the mount effect when it discards an unparsable identity, and
\* by nothing else.
C16_StorageAccessFrame ==
    [][ /\ reads' # {} <=> ev'.op \in {"initialize", "submit", "fetch"}
        /\ ev'.op \in {"submit", "fetch"} => reads' = {"auth_token"}
        /\ localStorage' # localStorage =>
               (ev'.op \in {"loginOk", "logout", "initialize"} \/ Is401(ev'))
        /\ (ev'.op = "initialize" /\ localStorage' # localStorage) =>
               /\ localStorage.auth_token \in AccessTokens
               /\ localStorage.auth_user \in {NotJson, TruncatedJson}
               /\ localStorage' = EmptyStorage ]_vars

C16_Witness ==
    /\ ev.op = "fetch"
    /\ reads = {"auth_token"}
    /\ Len(inflight) = 2

\* C17: within one page lifetime the (kind, Authorization) of a request in
\* flight is fixed when it is dispatched, from the credential stored at that
\* moment; no later dispatch, response, logout or invalidation changes it or
\* removes the request; only the arrival of its own response removes it, and
\* that arrival runs the request's handler (then on success, catch on
\* failure) whatever has happened to the session meanwhile; the response of
\* every request in flight can always arrive.
C17_HeaderFixedAtDispatchNothingCancelled ==
    /\ [][ ev'.op \notin {"pageload", "restart"} =>
             LET Sent(s) == [i \in 1..Len(s) |-> <<s[i].kind, s[i].Authorization>>]
             IN /\ ev'.op \in {"submit", "fetch"} =>
                      /\ Len(inflight') = Len(inflight) + 1
                      /\ SubSeq(Sent(inflight'), 1, Len(inflight)) = Sent(inflight)
                      /\ inflight'[Len(inflight')].Authorization =
                             RequestInterceptor(localStorage)
                /\ ev'.op \in {"loginOk", "loginFailed", "dataOk", "dataFailed"} =>
                      \E i \in DOMAIN inflight :
                          Sent(inflight') = Sent(Remove(inflight, i))
                /\ ev'.op \in {"loginFailed", "dataFailed"} =>
                      ev'.handler = "catch"
                /\ ev'.op \notin {"submit", "fetch", "loginOk", "loginFailed",
                                  "dataOk", "dataFailed"} =>
                      Sent(inflight') = Sent(inflight) ]_vars
    /\ [](\A i \in DOMAIN inflight :
             IF inflight[i].kind = "data"
             THEN /\ ENABLED DataResolved(i)
                  /\ \A err \in Errors : ENABLED DataRejected(i, err)
             ELSE /\ \A data \in LoginResponses : ENABLED LoginResolved(i, data)
                  /\ \A err \in Errors : ENABLED LoginRejected(i, err))

\* a data request sent with the old credential is still in flight after
\* logout cleared the session, and another one has just been answered
C17_Witness ==
    /\ ev.op = "dataOk"
    /\ localStorage = EmptyStorage /\ token = null
    /\ Len(inflight) = 1 /\ inflight[1].kind = "data"
    /\ inflight[1].Authorization = Str(<<"Bearer ", "tok1">>)

\* C18: the route gate never looks at the role: for every identity, whatever
\* its role code, and every protected path, a resolved authenticated session
\* is shown the page inside the layout; the same holds of the running
\* application in every reachable state.
C18_RoleIsNoBoundary ==
    /\ \A u \in Users, t \in AccessTokens, p \in ProtectedPaths :
           /\ ProtectedRoute(isAuthenticated(t, u), FALSE) = "Outlet"
           /\ App(p, t, u, FALSE) = "Layout"
    /\ (~isLoading /\ isAuthenticated(token, user) /\ pathname \in ProtectedPaths) =>
           /\ Gate = "Outlet"
           /\ Screen = "Layout"

\* a user whose role is outside the closed set is on a page no menu lists
C18_Witness ==
    /\ user = eve /\ token = tok1 /\ ~isLoading
    /\ pathname = "/analytics"
    /\ pathname \notin MenuPaths(user.role_code)
    /\ Screen = "Layout"

\* C19: an identity held in memory is replaced only by a successful login and
\* dropped only by logout or the end of the page; the persisted identity is
\* rewritten only by a successful login and removed only by logout, by a 401
\* invalidation, or by a mount effect that found it unparsable (so never one
\* that a login wrote); a successful login replaces the identity and the
\* credential together, in memory and in storage, with the response's values.
C19_IdentityImmutable ==
    [][ /\ user' # user =>
               ev'.op \in {"initialize", "loginOk", "logout", "pageload", "restart"}
        /\ (user # null /\ user' # user /\ user' # null) => ev'.op = "loginOk"
        /\ (ev'.op = "initialize" /\ user' # user) => user = null
        /\ localStorage'.auth_user # localStorage.auth_user =>
               (ev'.op \in {"loginOk", "logout", "initialize"} \/ Is401(ev'))
        /\ (localStorage'.auth_user # localStorage.auth_user /\ ev'.op # "loginOk") =>
               localStorage'.auth_user = null
        /\ (ev'.op = "initialize"
              /\ localStorage'.auth_user # localStorage.auth_user) =>
               localStorage.auth_user \notin {JSONstringify(u) : u \in Users}
        /\ ev'.op = "loginOk" =>
               /\ user' = ev'.data.user
               /\ token' = ev'.data.access_token
               /\ localStorage' = [auth_token |-> ev'.data.access_token,
                                   auth_user |-> JSONstringify(ev'.data.user)] ]_vars

\* a session that has just lived through a failed data request, identity
\* intact in memory and in storage
C19_Witness ==
    /\ ev.op = "dataFailed" /\ ev.err.status = ServerError
    /\ user = alice /\ token = tok1
    /\ localStorage.auth_user = JSONstringify(alice)
    /\ localStorage.auth_token = tok1

\* C20: for every role code the sidebar lists, in the order of the item
\* table, exactly the entries whose role list contains it: SUPER_ADMIN all
\* five, OPS_MANAGER Dashboard/Operations/Documents, VENDOR_USER
\* Dashboard/Vendors/Documents, ANALYST Dashboard/Analytics, any other role
\* none; the selected key is the current path when a listed entry leads to
\* it and "/" otherwise (with an empty menu "/" names no listed entry); the
\* sidebar of the running application is the one of the current user's role.
C20_SidebarByRole ==
    LET Labels(role) == [n \in 1..Len(filtered(role)) |-> filtered(role)[n].label]
        Expected(role) ==
            CASE role = "SUPER_ADMIN" ->
                     <<"Dashboard", "Operations", "Vendors", "Documents", "Analytics">>
              [] role = "OPS_MANAGER" -> <<"Dashboard", "Operations", "Documents">>
              [] role = "VENDOR_USER" -> <<"Dashboard", "Vendors", "Documents">>
              [] role = "ANALYST" -> <<"Dashboard", "Analytics">>
              [] OTHER -> <<>>
        Roles == {u.role_code : u \in Users}
    IN /\ \A role \in Roles :
              /\ Labels(role) = Expected(role)
              /\ \A n \in DOMAIN items :
                     items[n].path \in MenuPaths(role) <=> role \in items[n].roles
              /\ \A p \in Paths :
                     /\ p \in MenuPaths(role) => selectedKey(role, p) = p
                     /\ p \notin MenuPaths(role) => selectedKey(role, p) = "/"
                     /\ selectedKey(role, p) \in MenuPaths(role) <=>
                            MenuPaths(role) # {}
       /\ Screen = "Layout" =>
              /\ user.role_code \in Roles
              /\ selectedKey(user.role_code, pathname) =
                     (IF \E n \in DOMAIN items :
                             /\ items[n].path = pathname
                             /\ user.role_code \in items[n].roles
                      THEN pathname ELSE "/")

\* an operations manager looks at a page their menu does not list
C20_Witness ==
    /\ Screen = "Layout"
    /\ user = carol
    /\ pathname = "/analytics"
    /\ selectedKey(user.role_code, pathname) = "/"

\* C21 as stated: the markers are the hubs of the response that have a
\* pincode and a geocoding match, in response order, and the list is set
\* once.
C21_MarkersSetOnce ==
    [][ (\E r \in DOMAIN chains : chains[r].pc = "done") => hubs' = hubs ]_vars

\* C21 amended: every run of the mount effect sets the list exactly once,
\* when it has gone through all hubs of its own response, to the hubs of that
\* response that have a non-empty pincode and whose geocoding gave at least
\* one match, in response order, each with the parsed coordinates of its
\* first match; a hub without pincode is never geocoded, a hub whose
\* geocoding rejects, is unparsable or has no match is left out and the loop
\* goes on; the markers shown are those of the run that finished last.
C21_MarkersPerRun ==
    [][ LET Matched(c, k) == /\ Truthy(c.data[k].pincode)
                             /\ c.replies[k] # undefined
                             /\ c.replies[k].kind = "array"
                             /\ c.replies[k].data # <<>>
            Kept(c) == SelectSeq([k \in 1..Len(c.data) |-> k],
                                 LAMBDA k : Matched(c, k))
            Marker(c, k) == [hub_code |-> c.data[k].hub_code,
                             pincode |-> c.data[k].pincode,
                             status |-> c.data[k].status,
                             lat |-> parseFloat(c.replies[k].data[1].lat),
                             lng |-> parseFloat(c.replies[k].data[1].lon)]
            Expected(c) == [n \in 1..Len(Kept(c)) |-> Marker(c, Kept(c)[n])]
        IN /\ hubs' # hubs => ev'.setHubs
           /\ ev'.setHubs =>
                  LET c == chains'[ev'.run]
                  IN /\ chains[ev'.run].pc # "done"
                     /\ c.pc = "done"
                     /\ c.i = Len(c.data) + 1
                     /\ \A k \in 1..Len(c.data) :
                            c.replies[k] # undefined <=> Truthy(c.data[k].pincode)
                     /\ hubs' = Expected(c)
           /\ \A r \in DOMAIN chains :
                  chains[r].pc = "done" => chains'[r] = chains[r] ]_vars

\* a run has set the markers: the first hub's geocoding was rejected, the
\* second hub is on the map
C21_Witness ==
    /\ ev.op = "geocoded" /\ ev.setHubs
    /\ chains[ev.run].data = <<hubDEL, hubBOM>>
    /\ chains[ev.run].replies[1].kind = "rejects"
    /\ Len(hubs) = 1 /\ hubs[1].hub_code = "BOM" /\ hubs[1].lat = Num(2)

\* C22: every handler keeps the two durable slots paired: if before it ran
\* the credential slot was set exactly when the identity slot was set, the
\* same is true after it; so from a paired start they stay paired under every
\* interleaving of logins, failures, logouts, invalidations and initialize.
C22_SlotsStayPaired ==
    [][ (localStorage.auth_token # null <=> localStorage.auth_user # null) =>
        (localStorage'.auth_token # null <=> localStorage'.auth_user # null) ]_vars

\* an invalidation has just emptied a pair of slots that was set (memory
\* still holds what they held)
C22_Witness ==
    /\ Is401(ev)
    /\ token \in AccessTokens /\ user \in Users
    /\ localStorage.auth_token = null /\ localStorage.auth_user = null
    /\ hrefAssigned

\* C23 as stated: whenever the session is resolved and authenticated, the
\* credential in memory is the credential in storage.
C23_MemoryEqualsStorage ==
    (~isLoading /\ isAuthenticated(token, user)) =>
        token = localStorage.auth_token

\* C23 amended: whenever the session is resolved and authenticated and no
\* invalidation has started a page load, the credential and the identity in
\* memory are the ones in storage, and a request dispatched then carries the
\* header of the credential in memory; once a 401 has been handled, and until
\* the page load it started, memory still reports the session while the
\* header of a dispatched request follows storage alone.
C23_MemoryEqualsStorageUnlessInvalidated ==
    /\ [](  (~isLoading /\ isAuthenticated(token, user) /\ ~hrefAssigned) =>
                /\ token = localStorage.auth_token
                /\ localStorage.auth_user = JSONstringify(user) )
    /\ [][ ev'.op \in {"fetch", "submit"} =>
             LET sent == inflight'[Len(inflight')].Authorization
             IN /\ (isAuthenticated(token, user) /\ ~hrefAssigned) =>
                       sent = Bearer(token)
                /\ sent = RequestInterceptor(localStorage) ]_vars

\* a data request has just left with the header of the session's credential
C23_Witness ==
    /\ ev.op = "fetch" /\ ~hrefAssigned
    /\ token = tok2 /\ user = bob
    /\ inflight[Len(inflight)].Authorization = Str(<<"Bearer ", "tok2">>)
    /\ Gate = "Outlet"

\* C24: every 401 the response interceptor sees empties both durable slots
\* and starts the page load of /login, whatever credential the answered
\* request was sent with and whatever credential is stored by then: also when
\* the request went out under a credential that a later login has replaced.
C24_StaleUnauthorizedClearsFreshSession ==
    [][ Is401(ev') =>
            /\ localStorage' = EmptyStorage
            /\ hrefAssigned'
            /\ token' = token /\ user' = user ]_vars

\* a request sent as alice under tok1 is answered 401 after bob has logged
\* in under tok2: bob's stored session is gone
C24_Witness ==
    /\ Is401(ev)
    /\ ev.sent = Str(<<"Bearer ", "tok1">>)
    /\ token = tok2 /\ user = bob
    /\ localStorage = EmptyStorage
    /\ hrefAssigned

\* C25: whenever a login response is committed, also one that arrives after
\* another login of the same view has already succeeded, the session in
\* memory and the session in storage are both the credential and the identity
\* of that one response; the pair is always one the backend sent together.
C25_LastLoginWinsWhole ==
    [][ ev'.op = "loginOk" =>
            /\ <<token', user'>> = <<ev'.data.access_token, ev'.data.user>>
            /\ getItem(localStorage', "auth_token") = token'
            /\ JSONparse(getItem(localStorage', "auth_user")) =
                   [ok |-> TRUE, value |-> user']
            /\ \E d \in LoginResponses :
                   /\ d.access_token = token' /\ d.user = user'
                   /\ d.access_token = getItem(localStorage', "auth_token")
                   /\ JSONstringify(d.user) = getItem(localStorage', "auth_user") ]_vars

\* the second of two logins in flight together has completed after the
\* first one succeeded: the session is bob's, credential and identity
C25_Witness ==
    /\ ev.op = "loginOk" /\ ev.orphan
    /\ ev.data.user = bob
    /\ token = tok2 /\ user = bob
    /\ localStorage = [auth_token |-> tok2, auth_user |-> JSONstringify(bob)]

\* C26 as stated: a failed login attempt, whatever it failed with, leaves the
\* credential and identity in memory, both durable slots and isLoading as
\* they were (looked at where the two slots hold a stored session).
C26_FailedLoginChangesNothing ==
    [][ (/\ ev'.op = "loginFailed"
         /\ localStorage.auth_token \in AccessTokens
         /\ localStorage.auth_user \in {JSONstringify(u) : u \in Users}) =>
            /\ token' = token /\ user' = user
            /\ localStorage' = localStorage
            /\ isLoading' = isLoading ]_vars

C28_ReplyReplacesOwnPlaceholder ==
    /\ [](\A n \in 1..Len(messages) : messages[n].id = n)
    /\ [](\A k \in DOMAIN sends :
             /\ messages[sends[k].thinkingId].text = Thinking
             /\ \A j \in DOMAIN sends : j # k => sends[j].thinkingId # sends[k].thinkingId)
    /\ [][ /\ ev'.op \in {"reply", "chatFailed"} =>
               LET t == ev'.send.thinkingId
               IN /\ Len(messages') = Len(messages)
                  /\ messages[t].text = Thinking /\ messages[t].sender = "ai"
                  /\ messages[t - 1] = [id |-> t - 1, sender |-> "user",
                                        text |-> ev'.send.message]
                  /\ messages'[t] = [id |-> t, sender |-> "ai", text |-> ev'.text]
                  /\ \A n \in 1..Len(messages) : n # t => messages'[n] = messages[n]
           /\ ev'.op = "chatFailed" => ev'.text = CouldNotReach
           /\ ev'.op = "send" =>
                  /\ Len(messages') = Len(messages) + 2
                  /\ SubSeq(messages', 1, Len(messages)) = messages
                  /\ messages'[Len(messages')].text = Thinking
           /\ ev'.op \notin {"reply", "chatFailed", "send"} =>
                  messages' = messages ]_vars

\* three questions were in flight together; the second was answered first
\* and the first has failed, while the third is still thinking
C28_Witness ==
    /\ Len(messages) = 7 /\ Len(sends) = 1
    /\ ev.op = "chatFailed" /\ ev.send.thinkingId = 3
    /\ messages[3].text = CouldNotReach
    /\ messages[5].text = Str(<<"a1">>)
    /\ messages[7].text = Thinking

====
